---- MODULE Spec2Model ----
(***************************************************************************)
(* Model of Application (projects/Resonance v2/src/Application/            *)
(* Application.cpp): the layer list, the main loop of _Run, the phase      *)
(* dispatchers and the scene-swap transition.                              *)
(*                                                                         *)
(* One step of the model is either one iteration of a dispatcher's loop    *)
(* over _layers (the eligibility test and, when it passes, the hook call   *)
(* with whatever the hook does to the Application) or one straight-line    *)
(* block of _Run that calls no hook.  A hook is code outside this file:    *)
(* what it may do to the Application through the public interface (Quit,   *)
(* LoadScene(scene), the public Enabled field) is a nondeterministic       *)
(* choice.                                                                 *)
(***************************************************************************)
EXTENDS Integers, Sequences, FiniteSets, TLC

\* ---------------------------------------------------------------- bounds
NumLayers == 3      \* length of _layers
NumScenes == 2      \* distinct Scene objects that can be staged
MaxTime   == 3      \* latest glfwGetTime() reading, in ticks
MaxScale  == 2      \* largest value given to Timing's time scale

Layers == 1..NumLayers
Scenes == 1..NumScenes
Null   == 0                     \* nullptr
ScenePtrs == {Null} \cup Scenes
\* Framebuffer::Sptr values are nullptr and the framebuffers "A" and "B";
\* the code only compares them with nullptr.
NullFB    == "nullptr"
\* what a layer's GetRenderOutput() / GetPostRenderOutput() can return:
\* nothing, or the framebuffer the layer renders into (neighbouring layers
\* render into different framebuffers)
LayerOutputs(l) == {NullFB, IF l % 2 = 0 THEN "A" ELSE "B"}

\* AppLayerFunctions: the flags of ApplicationLayer::Overrides, one bit each
HookOrder == <<"OnAppLoad", "OnAppUnload", "OnUpdate", "OnLateUpdate",
               "OnPreRender", "OnRender", "OnPostRender", "OnSceneLoad",
               "OnSceneUnload", "OnWindowResize">>
Hooks == {HookOrder[i] : i \in DOMAIN HookOrder}
Bit == [h \in Hooks |-> 2 ^ ((CHOOSE i \in DOMAIN HookOrder : HookOrder[i] = h) - 1)]

\* `*(layer->Overrides & flag)`: the bitmask has the hook's bit
HasBit(mask, h) == (mask \div Bit[h]) % 2 = 1

RECURSIVE MaskOf(_)
MaskOf(hs) == IF hs = {} THEN 0
              ELSE LET h == CHOOSE x \in hs : TRUE IN Bit[h] + MaskOf(hs \ {h})

AllHooks == MaskOf(Hooks)
MaskA == MaskOf({"OnAppLoad", "OnUpdate", "OnPreRender", "OnPostRender",
                 "OnSceneUnload"})
MaskB == AllHooks - MaskA
\* the Overrides the layers are constructed with: every hook is present on
\* every layer in one configuration and absent from some layer in the other
OverrideConfigs ==
  { [l \in Layers |-> AllHooks],
    [l \in Layers |-> IF l % 2 = 1 THEN MaskA ELSE MaskB] }

VARIABLES
  pc,                   \* position of the application thread in _Run
  it,                   \* the layer the running dispatcher is at
  Enabled,              \* layer->Enabled
  Overrides,            \* layer->Overrides
  isEditor,             \* _isEditor
  isRunning,            \* _isRunning
  currentScene,         \* _currentScene
  targetScene,          \* _targetScene
  IsPlaying,            \* _currentScene->IsPlaying
  renderOutput,         \* _renderOutput
  result,               \* the local `result` of _RenderScene
  windowSize,           \* _windowSize
  newSize,              \* the argument of _HandleWindowSizeChanged
  primaryViewport,      \* _primaryViewport
  resizeArgs,           \* observation: the arguments of the last
                        \* OnWindowResize call, when the run records them
  isSwappingScenesCur,  \* local of _Run
  isEscapePressed,
  isGamePaused,
  isGameStarted,
  escapeDown,           \* observation: what glfwGetKey(GLFW_KEY_ESCAPE) gave
                        \* in the latest iteration
  toggled,              \* observation: the Escape test of the latest
                        \* iteration has toggled isGamePaused
  \* ---- observation of the run (written, never read, by the program)
  calls,                \* layers whose hook the running dispatcher invoked
  lastHook,             \* the hook `calls` is about
  phases,               \* per-frame phases completed in this iteration
  awakened,             \* Scene::Awake() calls since _currentScene was assigned
  staged,               \* _targetScene when this iteration began, or what an
                        \* OnSceneUnload hook of this iteration staged in its place
  swapped,              \* _HandleSceneChange ran to its end in this iteration
  polled,               \* glfwPollEvents and the Timing update ran in this iteration
  renderLog,            \* <<carried result passed, GetRenderOutput()>> per OnRender
  produced,             \* a GetRenderOutput() or GetPostRenderOutput() of this
                        \* iteration was not null
  blitted,              \* Framebuffer::Blit ran in this iteration's _PostRender
  \* ---- observation made only in an environment that asks for it
  rendered,             \* _renderOutput as _RenderScene left it in this iteration
  postLog,              \* GetPostRenderOutput() per OnPostRender call
  \* ---- Timing (Timing::_singleton) and the frame clock of _Run
  timeScale,            \* _timeScale
  deltaTime,            \* _deltaTime
  unscaledDeltaTime,    \* _unscaledDeltaTime
  timeSinceAppLoad,     \* _timeSinceAppLoad
  unscaledTimeSinceAppLoad,
  timeSinceSceneLoad,
  unscaledTimeSinceSceneLoad,
  lastFrame,            \* local of _Run
  thisFrame,            \* local of _Run: the last glfwGetTime() reading
  startFrame,           \* observation: the reading taken after _Load
  scaleFixed,           \* observation: no hook has changed _timeScale since
                        \* the loop of _Run was entered
  \* ---- observation of calls made from outside the main loop
  loadReturn,           \* what the last LoadScene(path) call returned
  \* ---- settings resolution at startup
  layerDefaults,        \* Name and GetDefaultConfig() of the layers of _layers
  appSettings,          \* _appSettings
  settingsFile,         \* the file app-settings.json of the application
  writes,               \* observation: the documents written to that file
  \* ---- the singleton and the calls of Start, Get and Quit
  singleton,            \* _singleton
  instances,            \* observation: how many times `new Application()` ran
  starts,               \* observation: the calls of Start so far
  lastCall,             \* observation: the last of Start and Get called
  quitAt                \* observation: where Quit() was first called from

vars == <<pc, it, Enabled, Overrides, isEditor, isRunning, currentScene,
          targetScene, IsPlaying, renderOutput, result, windowSize, newSize,
          primaryViewport, resizeArgs,
          isSwappingScenesCur, isEscapePressed, isGamePaused, isGameStarted,
          escapeDown, toggled, calls, lastHook, phases, awakened, staged, swapped, polled,
          renderLog, produced, blitted, rendered, postLog, loadReturn,
          timeScale, deltaTime, unscaledDeltaTime, timeSinceAppLoad,
          unscaledTimeSinceAppLoad, timeSinceSceneLoad,
          unscaledTimeSinceSceneLoad, lastFrame, thisFrame, startFrame,
          scaleFixed, layerDefaults, appSettings, settingsFile, writes,
          singleton, instances, starts, lastCall, quitAt>>

\* ------------------------------------------------------- scene documents
\* What FindObjectByName finds in each scene.  Scene 1 is the title scene
\* (start and loading planes), even scenes are levels (pause screen), other
\* odd scenes are title scenes without a loading plane.
HasStartScreenPlane(s)   == s % 2 = 1
HasLoadingScreenPlane(s) == s = 1
HasPauseScreen(s)        == s % 2 = 0
HasAudioManager(s)       == TRUE

\* ------------------------------------------------------------ hook effects
NoEffect == [kind |-> "none", arg |-> 0]
HookEffects ==
  {NoEffect, [kind |-> "quit", arg |-> 0]}
    \cup [kind : {"load"}, arg : ScenePtrs]
    \cup [kind : {"toggle"}, arg : Layers]

\* hooks that also set the time scale
ScaleEffects == [kind : {"scale"}, arg : 0..MaxScale]

\* Timing::SetTimeScale
SetTimeScale(value, scale) == value

\* Application::Quit
Quit(running) == FALSE

\* Application::LoadScene(const Scene::Sptr&)
LoadScene(scene, target) == scene

EffRunning(e, running) == IF e.kind = "quit" THEN Quit(running) ELSE running
EffTarget(e, target)   == IF e.kind = "load" THEN LoadScene(e.arg, target) ELSE target
EffScale(e, scale)     == IF e.kind = "scale" THEN SetTimeScale(e.arg, scale) ELSE scale
EffEnabled(e, en) ==
  IF e.kind = "toggle" THEN [en EXCEPT ![e.arg] = ~en[e.arg]] ELSE en

\* -------------------------------------------------------------- dispatch
\* (variant) the test without the Enabled flag
EligibleIgnoringEnabled(l, h) == HasBit(Overrides[l], h)

\* the test every dispatcher makes before calling a layer's hook
Eligible(l, h) == Enabled[l] /\ HasBit(Overrides[l], h)

\* (variant) _PostRender walking _layers forwards
ReverseButPostRender(h) == h \in {"OnAppUnload", "OnSceneUnload"}

\* dispatchers that walk _layers with crbegin()/crend()
Reverse(h) == h \in {"OnPostRender", "OnAppUnload", "OnSceneUnload"}

First(h)  == IF Reverse(h) THEN NumLayers ELSE 1
AtEnd(h)  == IF Reverse(h) THEN it = 1 ELSE it = NumLayers
Succ(h)   == IF Reverse(h) THEN it - 1 ELSE it + 1

\* the effects a call of hook h on layer `it` can have: none when the layer
\* is skipped
Effects(env, h) == IF Eligible(it, h) THEN env.effects ELSE {NoEffect}

DEFAULT_WINDOW_WIDTH  == 1920
DEFAULT_WINDOW_HEIGHT == 1080

\* the window size the constructor stores
DefaultSize == <<DEFAULT_WINDOW_WIDTH, DEFAULT_WINDOW_HEIGHT>>

\* (variant) the viewport given the width of the window as its height
ViewportSquare(size) == <<0, 0, size[1], size[1]>>

\* `_primaryViewport = { 0, 0, newSize.x, newSize.y }`
Viewport(size) == <<0, 0, size[1], size[2]>>

\* The environment of a run: what hooks may do, the key states glfwGetKey can
\* return, the sizes the window-size callback can report.
Env == [effects |-> HookEffects, keys |-> {FALSE}, sizes |-> {DefaultSize},
        post |-> FALSE, quits |-> FALSE, deltas |-> {0}]

\* one iteration of a dispatcher's loop: record the call, apply what the
\* hook did to the layer list
\* where the first call of Quit() was made from, when the run records it
QuitAt(env, e, at) ==
  IF env.quits /\ e.kind = "quit" /\ at = "none"
    THEN IF pc = "load" THEN "load" ELSE "frame"
    ELSE at

Visit(env, h, e) ==
  LET base == IF it = First(h) THEN <<>> ELSE calls
  IN  /\ calls' = IF Eligible(it, h) THEN Append(base, it) ELSE base
      /\ quitAt' = QuitAt(env, e, quitAt)
      /\ lastHook' = h
      /\ Enabled' = EffEnabled(e, Enabled)
      /\ timeScale' = EffScale(e, timeScale)
      /\ scaleFixed' = (pc = "load" \/ (scaleFixed /\ timeScale' = timeScale))

\* ---------------------------------------------------------------- settings
\* A JSON document is an object of depth two: every key of Keys carries a
\* value, one of absent (the key is not in the object), null, a number or
\* an object over SubKeys whose values are absent, null or a number.
Keys    == {"window_width", "window_height", "LayerA", "volume"}
SubKeys == {"volume", "window_width", "LayerA"}

Absent   == [t |-> "absent", n |-> 0]
JNull    == [t |-> "null", n |-> 0]
Num(v)   == [t |-> "num", n |-> v]
EmptyObj == [j \in SubKeys |-> Absent]

TAbsent  == [t |-> "absent", n |-> 0, o |-> EmptyObj]
TNull    == [t |-> "null", n |-> 0, o |-> EmptyObj]
TNum(v)  == [t |-> "num", n |-> v, o |-> EmptyObj]
TObj(s)  == [t |-> "obj", n |-> 0, o |-> s]
EmptyDoc == [k \in Keys |-> TAbsent]

\* a value of an inner object as a value of the root object
Top(leaf) == [t |-> leaf.t, n |-> leaf.n, o |-> EmptyObj]
\* an object over SubKeys as a root document
AsDoc(obj) == [k \in Keys |-> IF k \in SubKeys THEN Top(obj[k]) ELSE TAbsent]

\* json::merge_patch (RFC 7386) on one key of an inner object: a null of the
\* patch erases the key, any other value replaces, an absent key keeps
MergeLeaf(target, patch) ==
  IF patch.t = "absent" THEN target
  ELSE IF patch.t = "null" THEN Absent
  ELSE patch

\* json::merge_patch on one key of the root object: an object of the patch
\* is merged into the target's object, or into an empty one when the target
\* holds no object
MergeVal(target, patch) ==
  IF patch.t = "absent" THEN target
  ELSE IF patch.t = "null" THEN TAbsent
  ELSE IF patch.t = "obj"
    THEN LET base == IF target.t = "obj" THEN target.o ELSE EmptyObj
         IN  TObj([j \in SubKeys |-> MergeLeaf(base[j], patch.o[j])])
  ELSE patch

\* (variant) the patch taken whole in place of the target
merge_patch_replace(target, patch) == patch

\* json::merge_patch of an object into an object
merge_patch(target, patch) ==
  [k \in Keys |-> MergeVal(target[k], patch[k])]

\* `result.merge_patch(layer->GetDefaultConfig())`: a fragment that is no
\* object replaces the whole of result; the assignments that follow make the
\* value an object again, as they do with the `{}` result starts from
MergeRoot(doc, fragment) ==
  IF fragment.t = "obj" THEN merge_patch(doc, AsDoc(fragment.o)) ELSE EmptyDoc

\* the loop of _GetDefaultAppSettings over the layers from position i on
RECURSIVE LayerDefaults(_, _, _)
LayerDefaults(layers, i, doc) ==
  IF i > Len(layers) THEN doc
  ELSE LET layer == layers[i]
       IN  LayerDefaults(layers, i + 1,
             IF layer.Name # ""
               THEN [doc EXCEPT ![layer.Name] = layer.config]
               ELSE MergeRoot(doc, layer.config))

\* (variant) the window defaults stored before the layers' fragments
GetDefaultAppSettingsWindowFirst(layers) ==
  LayerDefaults(layers, 1,
    [EmptyDoc EXCEPT !["window_width"] = TNum(DEFAULT_WINDOW_WIDTH),
                     !["window_height"] = TNum(DEFAULT_WINDOW_HEIGHT)])

\* Application::_GetDefaultAppSettings
GetDefaultAppSettings(layers) ==
  [LayerDefaults(layers, 1, EmptyDoc)
     EXCEPT !["window_width"] = TNum(DEFAULT_WINDOW_WIDTH),
            !["window_height"] = TNum(DEFAULT_WINDOW_HEIGHT)]

\* (variant) the settings file taken as missing whatever the disk holds
SettingsFileExistsNever(file) == FALSE

\* std::filesystem::exists(settingsPath)
SettingsFileExists(file) == file.exists

\* a default-constructed nlohmann::json: null, no object
NullJson == <<>>

NoFile == [exists |-> FALSE, doc |-> NullJson]
FileOf(doc) == [exists |-> TRUE, doc |-> doc]

\* Application::SaveSettings: the dump of _appSettings replaces the file
SaveSettings(settings) == FileOf(settings)

\* settings not yet resolved, and no settings file on the disk
InitSettings ==
  /\ layerDefaults = <<>>
  /\ appSettings = NullJson
  /\ settingsFile = NoFile
  /\ writes = <<>>

\* Start has constructed the Application and has entered _Run
InitStarted ==
  /\ singleton = 1
  /\ instances = 1
  /\ starts = 1
  /\ lastCall = "Start"

\* Timing as the process starts, and the clock not yet read
InitTiming ==
  /\ timeScale = 1
  /\ deltaTime = 0
  /\ unscaledDeltaTime = 0
  /\ timeSinceAppLoad = 0
  /\ unscaledTimeSinceAppLoad = 0
  /\ timeSinceSceneLoad = 0
  /\ unscaledTimeSinceSceneLoad = 0
  /\ lastFrame = 0
  /\ thisFrame = 0
  /\ startFrame = 0
  /\ scaleFixed = TRUE

\* the members the constructor initialises, and the observations
InitMembers ==
  /\ it = 1
  /\ isRunning = FALSE
  /\ currentScene = Null
  /\ targetScene = Null
  /\ IsPlaying = FALSE
  /\ renderOutput = NullFB
  /\ result = NullFB
  /\ windowSize = DefaultSize
  /\ newSize = DefaultSize
  /\ primaryViewport = Viewport(DefaultSize)
  /\ resizeArgs = <<>>
  /\ isSwappingScenesCur = FALSE
  /\ isEscapePressed = FALSE
  /\ isGamePaused = FALSE
  /\ isGameStarted = FALSE
  /\ escapeDown = FALSE
  /\ toggled = FALSE
  /\ calls = <<>>
  /\ lastHook = "OnAppLoad"
  /\ phases = <<>>
  /\ awakened = 0
  /\ staged = Null
  /\ swapped = FALSE
  /\ polled = FALSE
  /\ renderLog = <<>>
  /\ produced = FALSE
  /\ blitted = FALSE
  /\ rendered = NullFB
  /\ postLog = <<>>
  /\ loadReturn = "none"
  /\ quitAt = "none"
  /\ InitTiming

Init ==
  /\ pc = "load"
  /\ Enabled \in [Layers -> BOOLEAN]
  /\ Overrides \in OverrideConfigs
  /\ isEditor \in BOOLEAN
  /\ InitMembers
  /\ InitSettings
  /\ InitStarted

\* ------------------------------------------------------------- variable groups
\* what the main loop never writes
settingsVars == <<layerDefaults, appSettings, settingsFile, writes>>
startVars == <<singleton, instances, starts, lastCall>>
outsideLoop == <<loadReturn, settingsVars, startVars>>
appVars   == <<isEditor, Overrides, outsideLoop>>
sceneVars == <<currentScene, IsPlaying>>
keyObs    == <<escapeDown, toggled>>
pauseVars == <<isSwappingScenesCur, isEscapePressed, isGamePaused, isGameStarted,
               keyObs>>
winVars   == <<windowSize, newSize, primaryViewport, resizeArgs>>
rendVars  == <<renderOutput, result, renderLog, produced, blitted, rendered,
               postLog>>
\* Timing's values without the time scale, and the frame clock
timingVals == <<deltaTime, unscaledDeltaTime, timeSinceAppLoad,
                unscaledTimeSinceAppLoad, timeSinceSceneLoad,
                unscaledTimeSinceSceneLoad>>
frameClock == <<lastFrame, thisFrame, startFrame>>
clockVars == <<timingVals, frameClock>>
\* what is recorded of the hooks' calls of Timing and Quit
hookObs   == <<scaleFixed, quitAt>>
timeVars  == <<timeScale, hookObs, clockVars>>
frameObs  == <<staged, swapped, polled>>

\* the process aborts (null dereference): nothing runs afterwards
Crash ==
  /\ pc' = "crashed"
  /\ UNCHANGED <<it, Enabled, appVars, timeVars, isRunning, sceneVars, targetScene,
                 rendVars, winVars, pauseVars, calls, lastHook, phases,
                 awakened, frameObs>>

\* Application::_Load, then `_isRunning = true` of _Run
LoadIn(env) ==
  /\ pc = "load"
  /\ \E e \in Effects(env, "OnAppLoad") :
       /\ Visit(env, "OnAppLoad", e)
       /\ targetScene' = EffTarget(e, targetScene)
       /\ IF AtEnd("OnAppLoad")
            THEN /\ \E d \in env.deltas :
                      /\ thisFrame' = thisFrame + d
                      /\ lastFrame' = thisFrame'
                      /\ startFrame' = thisFrame'
                 /\ isRunning' = TRUE
                 /\ isSwappingScenesCur' = FALSE
                 /\ staged' = targetScene'
                 /\ pc' = "top"
                 /\ it' = 1
            ELSE /\ isRunning' = EffRunning(e, isRunning)
                 /\ UNCHANGED <<isSwappingScenesCur, staged, pc, frameClock>>
                 /\ it' = Succ("OnAppLoad")
  /\ UNCHANGED <<appVars, timingVals, sceneVars, rendVars, winVars, isEscapePressed,
                 isGamePaused, isGameStarted, keyObs, phases, awakened, swapped,
                 polled>>

\* (variant) the current scene not yet replaced when OnSceneLoad is dispatched
SwapSceneLate(target) == currentScene

\* `_currentScene = _targetScene` of _HandleSceneChange
SwapScene(target) == target

\* _currentScene->IsPlaying after `_currentScene = _targetScene`: the flag of
\* the staged Scene object (playing), unchanged when that is the same object
StagedPlaying(target, playing) ==
  IF target = Null THEN FALSE
  ELSE IF target = currentScene THEN IsPlaying ELSE playing

\* (variant) a staged scene taken up only while no scene is current
SceneChangePendingFirstOnly(target) == target # Null /\ currentScene = Null

\* `if (_targetScene != nullptr)` at the top of the loop of _Run
SceneChangePending(target) == target # Null

\* top of the while loop of _Run: `if (_targetScene != nullptr)`, and the
\* start of _HandleSceneChange when no scene is current
FrameTop ==
  /\ pc = "top"
  /\ IF SceneChangePending(targetScene)
       THEN IF currentScene # Null
              THEN /\ pc' = "sceneUnload"
                   /\ it' = First("OnSceneUnload")
                   /\ UNCHANGED <<currentScene, IsPlaying, awakened>>
              ELSE /\ currentScene' = SwapScene(targetScene)
                   /\ \E playing \in BOOLEAN :
                        IsPlaying' = StagedPlaying(targetScene, playing)
                   /\ awakened' = 0
                   /\ pc' = "sceneLoad"
                   /\ it' = First("OnSceneLoad")
       ELSE /\ pc' = "preamble"
            /\ UNCHANGED <<it, currentScene, IsPlaying, awakened>>
  /\ calls' = <<>>
  /\ UNCHANGED <<Enabled, appVars, timeVars, isRunning, targetScene, rendVars, winVars,
                 pauseVars, lastHook, phases, frameObs>>

\* _HandleSceneChange: the OnSceneUnload loop, then `_currentScene = _targetScene`
SceneUnloadIn(env) ==
  /\ pc = "sceneUnload"
  /\ \E e \in Effects(env, "OnSceneUnload") :
       /\ Visit(env, "OnSceneUnload", e)
       /\ isRunning' = EffRunning(e, isRunning)
       /\ targetScene' = EffTarget(e, targetScene)
       /\ staged' = IF e.kind = "load" THEN targetScene' ELSE staged
       /\ IF AtEnd("OnSceneUnload")
            THEN /\ currentScene' = SwapScene(targetScene')
                 /\ \E playing \in BOOLEAN :
                      IsPlaying' = StagedPlaying(targetScene', playing)
                 /\ awakened' = 0
                 /\ pc' = "sceneLoad"
                 /\ it' = First("OnSceneLoad")
            ELSE /\ it' = Succ("OnSceneUnload")
                 /\ UNCHANGED <<currentScene, IsPlaying, awakened, pc>>
  /\ UNCHANGED <<appVars, clockVars, rendVars, winVars, pauseVars, phases, swapped,
                 polled>>

\* _HandleSceneChange: the OnSceneLoad loop
SceneLoadIn(env) ==
  /\ pc = "sceneLoad"
  /\ \E e \in Effects(env, "OnSceneLoad") :
       /\ Visit(env, "OnSceneLoad", e)
       /\ isRunning' = EffRunning(e, isRunning)
       /\ targetScene' = EffTarget(e, targetScene)
       /\ IF AtEnd("OnSceneLoad")
            THEN pc' = "awake" /\ it' = 1
            ELSE pc' = pc /\ it' = Succ("OnSceneLoad")
  /\ UNCHANGED <<appVars, clockVars, sceneVars, rendVars, winVars, pauseVars, phases,
                 awakened, frameObs>>

\* (variant) the scene set playing in editor mode too
PlayAlways(playing) == TRUE

\* `if (!_isEditor) { _currentScene->IsPlaying = true; }`
PlayByDefault(playing) == IF ~isEditor THEN TRUE ELSE playing

\* `_targetScene = nullptr` at the end of _HandleSceneChange
ClearTarget(target) == Null

\* (variant) the transition without the call of Awake
AwakeSkipped(count) == count

\* `_currentScene->Awake()`: one more call of Scene::Awake() on the scene
Awake(count) == count + 1

\* _HandleSceneChange: `_currentScene->Awake()` to the end.  Awake runs the
\* Awake of every component of the scene, which is code outside this file.
SceneAwakeIn(env) ==
  /\ pc = "awake"
  /\ IF currentScene = Null
       THEN Crash
       ELSE \E e \in env.effects :
              /\ awakened' = Awake(awakened)
              /\ Enabled' = EffEnabled(e, Enabled)
              /\ timeScale' = EffScale(e, timeScale)
              /\ scaleFixed' = (scaleFixed /\ timeScale' = timeScale)
              /\ quitAt' = QuitAt(env, e, quitAt)
              /\ isRunning' = EffRunning(e, isRunning)
              /\ IsPlaying' = PlayByDefault(IsPlaying)
              /\ targetScene' = ClearTarget(EffTarget(e, targetScene))
              /\ swapped' = TRUE
              /\ calls' = <<>>
              /\ pc' = "preamble"
              /\ UNCHANGED <<it, appVars, clockVars, currentScene, rendVars, winVars,
                             pauseVars, lastHook, phases, staged, polled>>

\* Application::LoadScene(const std::string&) on the pause flags and the
\* target slot: ex is std::filesystem::exists(path), ld the result of
\* Scene::Load(path)
LoadScenePath(st, ex, ld) ==
  IF ex
    THEN [esc |-> FALSE, paused |-> FALSE, started |-> TRUE,
          target |-> LoadScene(ld, st.target)]
    ELSE st

\* the value Application::LoadScene(const std::string&) returns:
\* `return scene != nullptr;` inside the exists test, `return false;` after it
LoadScenePathReturns(ex, ld) == IF ex THEN ld # Null ELSE FALSE

\* whether the Escape test of _Run toggles the pause
Toggles(st, escape) == escape /\ ~st.esc /\ st.started

\* the Escape test of _Run: toggles the pause on a press edge
EscapeKey(st, escape) ==
  IF escape
    THEN [st EXCEPT !.paused = IF ~st.esc /\ st.started THEN ~st.paused
                                                         ELSE st.paused,
                    !.esc = TRUE]
    ELSE [st EXCEPT !.esc = FALSE]

\* _Run from the start-screen test to the scene-reload test.  The keys are
\* glfwGetKey results, reload is _currentScene->requestSceneReload.
PreambleIn(env) ==
  /\ pc = "preamble"
  /\ \E space, escape, keyE \in env.keys :
     \E reload \in IF keyE THEN BOOLEAN ELSE {FALSE} :
     \E ex \in IF space \/ isSwappingScenesCur \/ reload THEN BOOLEAN ELSE {FALSE} :
     \E ld \in IF ex THEN ScenePtrs ELSE {Null} :
       LET cur  == currentScene
           st0  == [esc |-> isEscapePressed, paused |-> isGamePaused,
                    started |-> isGameStarted, target |-> targetScene]
           cond == (HasStartScreenPlane(cur) /\ space) \/ isSwappingScenesCur
           nullDeref ==
             \/ cur = Null
             \/ cond /\ ~HasStartScreenPlane(cur)
             \/ cond /\ ~HasLoadingScreenPlane(cur)
             \/ cond /\ isSwappingScenesCur /\ ~HasAudioManager(cur)
           st1  == IF cond /\ isSwappingScenesCur
                     THEN LoadScenePath(st0, ex, ld) ELSE st0
           st2  == EscapeKey(st1, escape)
           st3  == IF reload /\ keyE THEN LoadScenePath(st2, ex, ld) ELSE st2
       IN IF nullDeref
            THEN Crash
            ELSE /\ isSwappingScenesCur' = IF cond THEN ~isSwappingScenesCur
                                                   ELSE isSwappingScenesCur
                 /\ isEscapePressed' = st3.esc
                 /\ isGamePaused' = st3.paused
                 /\ isGameStarted' = st3.started
                 /\ escapeDown' = escape
                 /\ toggled' = Toggles(st1, escape)
                 /\ targetScene' = st3.target
                 /\ IsPlaying' = IF reload /\ keyE
                                   THEN TRUE
                                   ELSE IsPlaying
                 /\ calls' = <<>>
                 /\ pc' = "poll"
                 /\ UNCHANGED <<it, Enabled, appVars, timeVars, isRunning, currentScene,
                                rendVars, winVars, lastHook, phases, awakened,
                                frameObs>>

\* (variant) the phases entered without the Timing update
AfterEventsNoTiming == "update"

\* what _Run does once glfwPollEvents has returned: the should-close test
\* and the Timing update
AfterEvents == "timing"

\* glfwPollEvents: the window-size callback calls ResizeWindow
PollEventsIn(env) ==
  /\ pc = "poll"
  /\ \/ /\ pc' = AfterEvents
        /\ UNCHANGED <<it, newSize>>
     \/ \E size \in env.sizes :
          /\ newSize' = size
          /\ pc' = "resize"
          /\ it' = First("OnWindowResize")
  /\ calls' = <<>>
  /\ UNCHANGED <<Enabled, appVars, timeVars, isRunning, sceneVars, targetScene, rendVars,
                 windowSize, primaryViewport, resizeArgs, pauseVars, lastHook,
                 phases, awakened, frameObs>>

\* Application::_HandleWindowSizeChanged
HandleWindowSizeChangedIn(env) ==
  /\ pc = "resize"
  /\ \E e \in Effects(env, "OnWindowResize") :
       /\ Visit(env, "OnWindowResize", e)
       /\ isRunning' = EffRunning(e, isRunning)
       /\ targetScene' = EffTarget(e, targetScene)
       /\ resizeArgs' = IF env.post /\ Eligible(it, "OnWindowResize")
                           THEN <<windowSize, newSize>>
                           ELSE resizeArgs
       /\ IF AtEnd("OnWindowResize")
            THEN /\ windowSize' = newSize
                 /\ primaryViewport' = Viewport(newSize)
                 /\ pc' = AfterEvents
                 /\ it' = 1
            ELSE /\ it' = Succ("OnWindowResize")
                 /\ UNCHANGED <<windowSize, primaryViewport, pc>>
  /\ UNCHANGED <<appVars, clockVars, sceneVars, rendVars, newSize, pauseVars, phases,
                 awakened, frameObs>>

\* `if (glfwWindowShouldClose(_window)) { _isRunning = false; }`
ShouldClose(close, running) == IF close THEN FALSE ELSE running

\* (variant) the phases skipped once a stop was requested
RunsPhasesWhileRunning(scene) == scene # Null /\ isRunning

\* `if (_currentScene != nullptr)` around the five phases of _Run
RunsPhases(scene) == scene # Null

\* `float dt = static_cast<float>(thisFrame - lastFrame);`
FrameDelta(now, last) == now - last

\* (variant) the scaled counters advanced by the unscaled delta
ScaledDeltaUnscaled(dt, scale) == dt

\* `float scaledDt = dt * timing._timeScale;`
ScaledDelta(dt, scale) == dt * scale

\* (variant) lastFrame left at the reading taken after _Load
StoreLastFrameNever(now) == lastFrame

\* `lastFrame = thisFrame;`
StoreLastFrame(now) == now

\* _Run: glfwWindowShouldClose, the Timing update, `if (_currentScene != nullptr)`.
\* d is the time that passed since the last glfwGetTime() reading.
TimingIn(env) ==
  /\ pc = "timing"
  /\ \E close \in BOOLEAN :
       isRunning' = ShouldClose(close, isRunning)
  /\ \E d \in {x \in env.deltas : thisFrame + x <= MaxTime} :
       LET now      == thisFrame + d
           dt       == FrameDelta(now, lastFrame)
           scaledDt == ScaledDelta(dt, timeScale)
       IN /\ thisFrame' = now
          /\ unscaledDeltaTime' = dt
          /\ deltaTime' = scaledDt
          /\ timeSinceAppLoad' = timeSinceAppLoad + scaledDt
          /\ unscaledTimeSinceAppLoad' = unscaledTimeSinceAppLoad + dt
          /\ timeSinceSceneLoad' = timeSinceSceneLoad + scaledDt
          /\ unscaledTimeSinceSceneLoad' = unscaledTimeSinceSceneLoad + dt
  /\ polled' = TRUE
  /\ calls' = <<>>
  /\ IF RunsPhases(currentScene)
       THEN pc' = "update" /\ it' = First("OnUpdate")
       ELSE pc' = "endFrame" /\ it' = 1
  /\ UNCHANGED <<startFrame, hookObs, timeScale, lastFrame>>
  /\ UNCHANGED <<Enabled, appVars, sceneVars, targetScene, rendVars, winVars,
                 pauseVars, lastHook, phases, awakened, staged, swapped>>

\* (variant) _Run without the call of _LateUpdate
NextPhaseWithoutLateUpdate(h) ==
  CASE h = "OnUpdate"     -> [pc |-> "preRender",  hook |-> "OnPreRender"]
    [] h = "OnLateUpdate" -> [pc |-> "preRender",  hook |-> "OnPreRender"]
    [] h = "OnPreRender"  -> [pc |-> "render",     hook |-> "OnRender"]
    [] h = "OnRender"     -> [pc |-> "postRender", hook |-> "OnPostRender"]

\* the phase _Run calls after the dispatcher of hook h
NextPhase(h) ==
  CASE h = "OnUpdate"     -> [pc |-> "lateUpdate", hook |-> "OnLateUpdate"]
    [] h = "OnLateUpdate" -> [pc |-> "preRender",  hook |-> "OnPreRender"]
    [] h = "OnPreRender"  -> [pc |-> "render",     hook |-> "OnRender"]
    [] h = "OnRender"     -> [pc |-> "postRender", hook |-> "OnPostRender"]

\* a dispatcher whose loop is all it does to the Application
Phase(env, here, h) ==
  /\ pc = here
  /\ \E e \in Effects(env, h) :
       /\ Visit(env, h, e)
       /\ isRunning' = EffRunning(e, isRunning)
       /\ targetScene' = EffTarget(e, targetScene)
       /\ IF AtEnd(h)
            THEN /\ pc' = NextPhase(h).pc
                 /\ it' = First(NextPhase(h).hook)
                 /\ phases' = Append(phases, h)
            ELSE /\ it' = Succ(h)
                 /\ UNCHANGED <<pc, phases>>
  /\ UNCHANGED <<appVars, clockVars, sceneVars, rendVars, winVars, pauseVars, awakened,
                 frameObs>>

\* Application::_Update
UpdateIn(env) == Phase(env, "update", "OnUpdate")

\* Application::_LateUpdate
LateUpdateIn(env) == Phase(env, "lateUpdate", "OnLateUpdate")

\* Application::_PreRender
PreRenderIn(env) == Phase(env, "preRender", "OnPreRender")

\* `Framebuffer::Sptr result = nullptr;` of _RenderScene; prev is _renderOutput
RenderStart(prev) == NullFB

\* (variant) the carried result overwritten by a null output
CarryLatest(layerResult, carried) == layerResult

\* `result = layerResult != nullptr ? layerResult : result`
Carry(layerResult, carried) == IF layerResult # NullFB THEN layerResult ELSE carried

\* Application::_RenderScene: out is layer->GetRenderOutput()
RenderSceneIn(env) ==
  /\ pc = "render"
  /\ \E e \in Effects(env, "OnRender") :
     \E out \in IF Eligible(it, "OnRender") THEN LayerOutputs(it) ELSE {NullFB} :
       LET carried == IF it = First("OnRender") THEN RenderStart(renderOutput)
                                                ELSE result
           log     == IF it = First("OnRender") THEN <<>> ELSE renderLog
           new     == IF Eligible(it, "OnRender") THEN Carry(out, carried)
                                                   ELSE carried
       IN /\ Visit(env, "OnRender", e)
          /\ isRunning' = EffRunning(e, isRunning)
          /\ targetScene' = EffTarget(e, targetScene)
          /\ renderLog' = IF Eligible(it, "OnRender")
                            THEN Append(log, <<carried, out>>) ELSE log
          /\ produced' = (produced \/ out # NullFB)
          /\ IF AtEnd("OnRender")
               THEN /\ renderOutput' = new
                    /\ rendered' = IF env.post THEN new ELSE rendered
                    /\ result' = NullFB
                    /\ pc' = NextPhase("OnRender").pc
                    /\ it' = First(NextPhase("OnRender").hook)
                    /\ phases' = Append(phases, "OnRender")
               ELSE /\ result' = new
                    /\ it' = Succ("OnRender")
                    /\ UNCHANGED <<renderOutput, rendered, pc, phases>>
  /\ UNCHANGED <<appVars, clockVars, sceneVars, blitted, postLog, winVars, pauseVars,
                 awakened, frameObs>>

\* (variant) the blit made without the null test
BlitsAlways(output) == TRUE

\* `if (_renderOutput != nullptr)` around the blit of _PostRender
Blits(output) == output # NullFB

\* Application::_PostRender: out is layer->GetPostRenderOutput()
PostRenderIn(env) ==
  /\ pc = "postRender"
  /\ \E e \in Effects(env, "OnPostRender") :
     \E out \in IF Eligible(it, "OnPostRender") THEN LayerOutputs(it)
                                                  ELSE {NullFB} :
       LET new == IF Eligible(it, "OnPostRender") THEN Carry(out, renderOutput)
                                                   ELSE renderOutput
       IN /\ Visit(env, "OnPostRender", e)
          /\ isRunning' = EffRunning(e, isRunning)
          /\ targetScene' = EffTarget(e, targetScene)
          /\ renderOutput' = new
          /\ produced' = (produced \/ out # NullFB)
          /\ postLog' = IF env.post /\ Eligible(it, "OnPostRender")
                          THEN Append(postLog, out) ELSE postLog
          /\ IF AtEnd("OnPostRender")
               THEN /\ blitted' = Blits(new)
                    /\ pc' = "endFrame"
                    /\ it' = 1
                    /\ phases' = Append(phases, "OnPostRender")
               ELSE /\ it' = Succ("OnPostRender")
                    /\ UNCHANGED <<blitted, pc, phases>>
  /\ renderLog' = <<>>
  /\ UNCHANGED <<appVars, clockVars, sceneVars, result, rendered, winVars, pauseVars,
                 awakened, frameObs>>

\* `while (_isRunning)`: the loop goes round again
LoopsAgain(running) == running

\* end of the loop body of _Run (InputEngine::EndFrame, ImGuiHelper::EndFrame,
\* glfwSwapBuffers) and the next test of `while (_isRunning)`
EndFrame ==
  /\ pc = "endFrame"
  /\ IF LoopsAgain(isRunning)
       THEN pc' = "top" /\ it' = 1
       ELSE pc' = "unload" /\ it' = First("OnAppUnload")
  /\ phases' = <<>>
  /\ staged' = targetScene
  /\ swapped' = FALSE
  /\ polled' = FALSE
  /\ produced' = FALSE
  /\ blitted' = FALSE
  /\ rendered' = NullFB
  /\ postLog' = <<>>
  /\ calls' = <<>>
  /\ lastFrame' = StoreLastFrame(thisFrame)
  /\ UNCHANGED <<timeScale, hookObs, timingVals, thisFrame, startFrame>>
  /\ UNCHANGED <<Enabled, appVars, isRunning, sceneVars, targetScene,
                 renderOutput, result, renderLog, winVars, pauseVars, lastHook,
                 awakened>>

\* Application::_Unload
UnloadIn(env) ==
  /\ pc = "unload"
  /\ \E e \in Effects(env, "OnAppUnload") :
       /\ Visit(env, "OnAppUnload", e)
       /\ isRunning' = EffRunning(e, isRunning)
       /\ targetScene' = EffTarget(e, targetScene)
       /\ IF AtEnd("OnAppUnload")
            THEN pc' = "terminated" /\ it' = 1
            ELSE pc' = pc /\ it' = Succ("OnAppUnload")
  /\ UNCHANGED <<appVars, clockVars, sceneVars, rendVars, winVars, pauseVars, phases,
                 awakened, frameObs>>

\* ------------------------------------------------------- the specification
Load                    == LoadIn(Env)
SceneUnload             == SceneUnloadIn(Env)
SceneLoad               == SceneLoadIn(Env)
SceneAwake              == SceneAwakeIn(Env)
Preamble                == PreambleIn(Env)
PollEvents              == PollEventsIn(Env)
HandleWindowSizeChanged == HandleWindowSizeChangedIn(Env)
Timing                  == TimingIn(Env)
Update                  == UpdateIn(Env)
LateUpdate              == LateUpdateIn(Env)
PreRender               == PreRenderIn(Env)
RenderScene             == RenderSceneIn(Env)
PostRender              == PostRenderIn(Env)
Unload                  == UnloadIn(Env)

Next ==
  \/ Load
  \/ FrameTop
  \/ SceneUnload
  \/ SceneLoad
  \/ SceneAwake
  \/ Preamble
  \/ PollEvents
  \/ HandleWindowSizeChanged
  \/ Timing
  \/ Update
  \/ LateUpdate
  \/ PreRender
  \/ RenderScene
  \/ PostRender
  \/ EndFrame
  \/ Unload

Spec == Init /\ [][Next]_vars

\* ------------------------------------------------ the run in other environments
\* one step of the application thread in environment env
NextIn(env) ==
  \/ LoadIn(env)
  \/ FrameTop
  \/ SceneUnloadIn(env)
  \/ SceneLoadIn(env)
  \/ SceneAwakeIn(env)
  \/ PreambleIn(env)
  \/ PollEventsIn(env)
  \/ HandleWindowSizeChangedIn(env)
  \/ TimingIn(env)
  \/ UpdateIn(env)
  \/ LateUpdateIn(env)
  \/ PreRenderIn(env)
  \/ RenderSceneIn(env)
  \/ PostRenderIn(env)
  \/ EndFrame
  \/ UnloadIn(env)

\* hooks that stage scenes and quit but leave the layers' Enabled flags
\* alone; the post-render outputs are recorded
EnvRender == [effects |-> {e \in HookEffects : e.kind # "toggle"},
              keys |-> {FALSE}, sizes |-> {DefaultSize}, post |-> TRUE, quits |-> FALSE,
              deltas |-> {0}]

SpecRender == Init /\ [][NextIn(EnvRender)]_vars

\* time passes between the clock readings and hooks set the time scale and
\* stage a scene; two layers are enabled and have every hook
EnvTiming == [effects |-> {NoEffect, [kind |-> "load", arg |-> 1]} \cup ScaleEffects,
              keys |-> {FALSE}, sizes |-> {DefaultSize}, post |-> FALSE, quits |-> FALSE,
              deltas |-> {0, 1, 2}]

InitTimed ==
  /\ Init
  /\ Enabled = [l \in Layers |-> l <= 2]
  /\ Overrides = [l \in Layers |-> AllHooks]
  /\ ~isEditor

SpecTiming == InitTimed /\ [][NextIn(EnvTiming)]_vars

\* the sizes a window can be given
MaxSize == 2
WindowSizes == (1..MaxSize) \X (1..MaxSize)

\* the window is resized between frames; hooks stage a scene; the arguments
\* of the OnWindowResize calls are recorded
EnvResize == [effects |-> {NoEffect, [kind |-> "load", arg |-> 1]},
              keys |-> {FALSE}, sizes |-> WindowSizes, post |-> TRUE,
              quits |-> FALSE, deltas |-> {0}]

InitResize ==
  /\ Init
  /\ ~isEditor

SpecResize == InitResize /\ [][NextIn(EnvResize)]_vars

\* the keys are pressed and released between frames; hooks stage scenes
EnvPause == [effects |-> {NoEffect, [kind |-> "load", arg |-> 1]},
             keys |-> BOOLEAN, sizes |-> {DefaultSize}, post |-> FALSE,
             quits |-> FALSE, deltas |-> {0}]

InitPause ==
  /\ Init
  /\ Enabled = [l \in Layers |-> l = 1]
  /\ Overrides = [l \in Layers |-> AllHooks]
  /\ ~isEditor

SpecPause == InitPause /\ [][NextIn(EnvPause)]_vars

\* ------------------------------------------------- calls of the scene loaders
\* The application is running, inside a hook that is about to call a scene
\* loader: any current scene, any staged target, any pause flags.
InitLoadScene ==
  /\ pc = "update"
  /\ it = 1
  /\ Enabled = [l \in Layers |-> TRUE]
  /\ Overrides = [l \in Layers |-> AllHooks]
  /\ isEditor = FALSE
  /\ isRunning = TRUE
  /\ currentScene \in Scenes
  /\ targetScene \in ScenePtrs
  /\ IsPlaying = TRUE
  /\ renderOutput = NullFB
  /\ result = NullFB
  /\ windowSize = DefaultSize
  /\ newSize = DefaultSize
  /\ primaryViewport = Viewport(DefaultSize)
  /\ resizeArgs = <<>>
  /\ isSwappingScenesCur \in BOOLEAN
  /\ isEscapePressed \in BOOLEAN
  /\ isGamePaused \in BOOLEAN
  /\ isGameStarted \in BOOLEAN
  /\ escapeDown = FALSE
  /\ toggled = FALSE
  /\ calls = <<>>
  /\ lastHook = "OnUpdate"
  /\ phases = <<>>
  /\ awakened = 1
  /\ staged = Null
  /\ swapped = FALSE
  /\ polled = TRUE
  /\ renderLog = <<>>
  /\ produced = FALSE
  /\ blitted = FALSE
  /\ rendered = NullFB
  /\ postLog = <<>>
  /\ loadReturn = "none"
  /\ quitAt = "none"
  /\ InitTiming
  /\ InitSettings
  /\ InitStarted

\* everything but the target slot, the pause flags and the returned value
loaderFrame == <<pc, it, Enabled, isEditor, Overrides, isRunning, sceneVars,
                 rendVars, winVars, isSwappingScenesCur, calls, lastHook,
                 phases, awakened, frameObs, timeVars, settingsVars,
                 startVars, keyObs>>

\* a call of Application::LoadScene(const std::string&): ex is
\* std::filesystem::exists(path), ld what Scene::Load(path) returns
CallLoadScenePath ==
  \E ex \in BOOLEAN :
  \E ld \in IF ex THEN ScenePtrs ELSE {Null} :
    LET st == LoadScenePath([esc |-> isEscapePressed, paused |-> isGamePaused,
                             started |-> isGameStarted, target |-> targetScene],
                            ex, ld)
    IN /\ isEscapePressed' = st.esc
       /\ isGamePaused' = st.paused
       /\ isGameStarted' = st.started
       /\ targetScene' = st.target
       /\ loadReturn' = IF LoadScenePathReturns(ex, ld) THEN "true" ELSE "false"
       /\ UNCHANGED loaderFrame

\* a call of Application::LoadScene(const Scene::Sptr&)
CallLoadScene ==
  \E scene \in ScenePtrs :
    /\ targetScene' = LoadScene(scene, targetScene)
    /\ loadReturn' = "none"
    /\ UNCHANGED <<loaderFrame, isEscapePressed, isGamePaused, isGameStarted>>

NextLoadScene ==
  \/ CallLoadScenePath
  \/ CallLoadScene

SpecLoadScene == InitLoadScene /\ [][NextLoadScene]_vars

\* ------------------------------------------------ settings resolution of _Run
\* the layers a build registers, as far as the settings see them: a name,
\* empty for an unnamed layer, and the object GetDefaultConfig returns
MaxSettingsLayers == 2
DefaultValue == 1
LayerNames    == {"", "LayerA"}
ObjectConfigs == {TObj(s) : s \in [SubKeys -> {Absent, Num(DefaultValue)}]}
LayerConfigs  == {c \in ObjectConfigs : c.o["LayerA"] = Absent}

\* the documents a user can have left in the settings file
UserValue == 800
PersistedObjs == [SubKeys -> {Absent, JNull, Num(UserValue)}]
PersistedVals(k) ==
  {TAbsent, TNull, TNum(UserValue)}
    \cup (IF k = "LayerA" THEN {TObj(s) : s \in PersistedObjs} ELSE {})
PersistedDocs == {d \in [Keys -> UNION {PersistedVals(k) : k \in Keys}] :
                    \A k \in Keys : d[k] \in PersistedVals(k)}

\* _Run is entered: no layer registered yet, any settings file on the disk
InitConfigure ==
  /\ pc = "register"
  /\ Enabled = [l \in Layers |-> TRUE]
  /\ Overrides = [l \in Layers |-> AllHooks]
  /\ isEditor = FALSE
  /\ InitMembers
  /\ layerDefaults = <<>>
  /\ appSettings = NullJson
  /\ settingsFile \in {NoFile} \cup {FileOf(d) : d \in PersistedDocs}
  /\ writes = <<>>
  /\ InitStarted

\* all but the position and the settings
settingsFrame == <<it, Enabled, isEditor, Overrides, loadReturn, isRunning,
                   sceneVars, targetScene, rendVars, winVars, pauseVars, calls,
                   lastHook, phases, awakened, frameObs, timeVars, startVars>>

\* `_layers.push_back(...)` of _Run, of a layer with one of the names and
\* one of the default configurations given
RegisterLayerFrom(names, configs) ==
  /\ pc = "register"
  /\ Len(layerDefaults) < MaxSettingsLayers
  /\ \E name \in names, config \in configs :
       layerDefaults' = Append(layerDefaults, [Name |-> name, config |-> config])
  /\ UNCHANGED <<pc, appSettings, settingsFile, writes, settingsFrame>>

RegisterLayer == RegisterLayerFrom(LayerNames, LayerConfigs)

\* Application::_ConfigureSettings, SaveSettings included
ConfigureSettings ==
  /\ pc = "register"
  /\ LET defaults == GetDefaultAppSettings(layerDefaults)
     IN  IF SettingsFileExists(settingsFile)
           THEN /\ appSettings' = merge_patch(defaults, settingsFile.doc)
                /\ UNCHANGED <<settingsFile, writes>>
           ELSE /\ appSettings' = defaults
                /\ settingsFile' = SaveSettings(appSettings')
                /\ writes' = Append(writes, appSettings')
  /\ pc' = "load"
  /\ UNCHANGED <<layerDefaults, settingsFrame>>

NextSettings ==
  \/ RegisterLayer
  \/ ConfigureSettings

SpecSettings == InitConfigure /\ [][NextSettings]_vars

\* layers of any name, one that collides with a key of the application
\* included, whose GetDefaultConfig returns any object or no object at all
AnyNames   == LayerNames \cup {"window_width"}
AnyConfigs == ObjectConfigs \cup {TNull}

RegisterAnyLayer == RegisterLayerFrom(AnyNames, AnyConfigs)

\* no settings file on the disk: the settings are the compiled defaults
InitDefaults ==
  /\ InitConfigure
  /\ settingsFile = NoFile

NextDefaults ==
  \/ RegisterAnyLayer
  \/ ConfigureSettings

SpecDefaults == InitDefaults /\ [][NextDefaults]_vars

\* ------------------------------------------------------ Start, Get and a run
\* (variant) Start without its assertion
StartAssertionSkipped(s) == TRUE

\* the condition Start asserts: `_singleton == nullptr`
StartAssertion(s) == s = Null

\* the condition Get asserts: `_singleton != nullptr`
GetAssertion(s) == s # Null

\* LOG_ASSERT(cond, ...): the process is terminated when cond is false
AssertFails(cond) == ~cond

\* the position of a process that an assertion has terminated
Aborted == "aborted"

\* `_singleton = new Application()`
NewApplication == 1

\* the process has started and Start has not been called
InitIdle ==
  /\ pc = "idle"
  /\ Enabled = [l \in Layers |-> l <= 2]
  /\ Overrides = [l \in Layers |-> AllHooks]
  /\ isEditor = FALSE
  /\ InitMembers
  /\ InitSettings
  /\ singleton = Null
  /\ instances = 0
  /\ starts = 0
  /\ lastCall = "none"

\* all that Start and Get leave alone
callFrame == <<it, Enabled, isEditor, Overrides, loadReturn, settingsVars,
               isRunning, sceneVars, targetScene, rendVars, winVars, pauseVars,
               calls, lastHook, phases, awakened, frameObs, timeVars>>

\* a call of Application::Start, from main or from inside the run.  The
\* assertion passes only before any Start, where the members hold what the
\* constructor gives them; _Run is entered at _Load, with the layers and the
\* settings held fixed.
CallStart ==
  /\ pc # Aborted
  /\ starts' = starts + 1
  /\ lastCall' = "Start"
  /\ IF AssertFails(StartAssertion(singleton))
       THEN /\ pc' = Aborted
            /\ UNCHANGED <<singleton, instances>>
       ELSE /\ singleton' = NewApplication
            /\ instances' = instances + 1
            /\ pc' = "load"
  /\ UNCHANGED callFrame

\* a call of Application::Get
CallGet ==
  /\ pc # Aborted
  /\ lastCall' = "Get"
  /\ pc' = IF AssertFails(GetAssertion(singleton)) THEN Aborted ELSE pc
  /\ UNCHANGED <<singleton, instances, starts, callFrame>>

\* hooks that stage a scene and quit; the calls of Quit are recorded
EnvLifecycle == [effects |-> {NoEffect, [kind |-> "load", arg |-> 1],
                              [kind |-> "quit", arg |-> 0]},
                 keys |-> {FALSE}, sizes |-> {DefaultSize}, post |-> FALSE,
                 quits |-> TRUE, deltas |-> {0}]

\* the calls, and the steps of the run while no assertion has ended the
\* process
NextLifecycle ==
  \/ CallStart
  \/ CallGet
  \/ NextIn(EnvLifecycle)

SpecLifecycle == InitIdle /\ [][NextLifecycle]_vars

\* ================================================================ claims
\* the hook each dispatcher position calls
HookAt ==
  [p \in {"load", "sceneUnload", "sceneLoad", "resize", "update", "lateUpdate",
          "preRender", "render", "postRender", "unload"} |->
     CASE p = "load"        -> "OnAppLoad"
       [] p = "sceneUnload" -> "OnSceneUnload"
       [] p = "sceneLoad"   -> "OnSceneLoad"
       [] p = "resize"      -> "OnWindowResize"
       [] p = "update"      -> "OnUpdate"
       [] p = "lateUpdate"  -> "OnLateUpdate"
       [] p = "preRender"   -> "OnPreRender"
       [] p = "render"      -> "OnRender"
       [] p = "postRender"  -> "OnPostRender"
       [] p = "unload"      -> "OnAppUnload"]

PhaseSeq == <<"OnUpdate", "OnLateUpdate", "OnPreRender", "OnRender", "OnPostRender">>
PhasePcs == <<"update", "lateUpdate", "preRender", "render", "postRender">>

\* positions of an iteration after the scene-swap step
AfterSwapPcs == {"preamble", "poll", "resize", "timing", "update", "lateUpdate",
                 "preRender", "render", "postRender", "endFrame"}
\* positions inside _HandleSceneChange
SwapPcs == {"sceneUnload", "sceneLoad", "awake"}

\* the last non-null element of a sequence of outputs, null when there is none
LastNonNull(seq) ==
  IF \E i \in DOMAIN seq : seq[i] # NullFB
    THEN seq[CHOOSE i \in DOMAIN seq :
               seq[i] # NullFB /\ \A j \in DOMAIN seq : j > i => seq[j] = NullFB]
    ELSE NullFB

\* C1: in every dispatcher, the step that reaches a layer invokes the layer's
\* hook (the call is recorded in `calls`) if and only if, at that moment, the
\* layer's Enabled flag is true and its Overrides contain the hook's bit.
C1_Step ==
  pc \in DOMAIN HookAt =>
    LET h == HookAt[pc]
        invoked == lastHook' = h
                   /\ (calls' = Append(calls, it) \/ calls' = <<it>>)
    IN  invoked <=> (Enabled[it] /\ HasBit(Overrides[it], h))

C1_HookIffEligible == [][C1_Step]_vars

\* C1 witness: an Update dispatch over three layers that called layers 1 and
\* 3 and skipped layer 2, which has the OnUpdate bit but is disabled.
C1_Witness ==
  /\ pc = "lateUpdate" /\ lastHook = "OnUpdate"
  /\ calls = <<1, 3>>
  /\ ~Enabled[2] /\ HasBit(Overrides[2], "OnUpdate")

\* C2: within one dispatch the invoked layers are recorded in increasing
\* registration order for the forward hooks and in decreasing registration
\* order for OnPostRender, OnSceneUnload and OnAppUnload.
C2_VisitOrder ==
  \A i, j \in DOMAIN calls :
    i < j =>
      IF lastHook \in {"OnPostRender", "OnSceneUnload", "OnAppUnload"}
        THEN calls[i] > calls[j]
        ELSE calls[i] < calls[j]

\* C2 witness: a completed PostRender dispatch that called three layers, in
\* the order L3, L2, L1, after a Render dispatch of the same frame.
C2_Witness ==
  /\ pc = "endFrame" /\ lastHook = "OnPostRender"
  /\ calls = <<3, 2, 1>>

\* C3: in an iteration with a current scene the dispatcher at work is always
\* the one after the phases completed so far, which are a prefix of Update,
\* LateUpdate, PreRender, Render, PostRender; the iteration reaches its end
\* with all five completed, and no phase has run before the Timing update.
C3_PhaseOrder ==
  /\ \A k \in 1..5 : pc = PhasePcs[k] => phases = SubSeq(PhaseSeq, 1, k - 1)
  /\ (pc = "endFrame" /\ currentScene # Null) => phases = PhaseSeq
  /\ pc \in {"top", "preamble", "poll", "resize", "timing"} \cup SwapPcs
       => phases = <<>>

\* C3 witness: the end of an iteration with a current scene, the five phases
\* done.
C3_Witness ==
  /\ pc = "endFrame" /\ currentScene # Null /\ phases = PhaseSeq /\ isRunning

\* C4: OnSceneUnload is dispatched only when a scene is current; the current
\* scene is not replaced while OnSceneUnload hooks remain; the OnSceneLoad
\* loop is entered only from the last OnSceneUnload step (or directly when no
\* scene was current), with the current scene already equal to the staged
\* target, and no step of the OnSceneLoad loop changes the current scene or
\* returns to OnSceneUnload.
C4_Step ==
  /\ pc = "sceneUnload" => currentScene # Null
  /\ (pc = "sceneUnload" /\ pc' = "sceneUnload") => currentScene' = currentScene
  /\ (pc # "sceneLoad" /\ pc' = "sceneLoad") =>
       /\ \/ pc = "top" /\ currentScene = Null
          \/ pc = "sceneUnload" /\ it = 1
       /\ currentScene' = targetScene'
  /\ pc = "sceneLoad" =>
       /\ pc' \in {"sceneLoad", "awake"}
       /\ currentScene' = currentScene

C4_SwapOrder == [][C4_Step]_vars

\* C4 witness: the first OnSceneLoad hook is about to run after all three
\* layers' OnSceneUnload hooks ran, and the current scene is the new scene.
C4_Witness ==
  /\ pc = "sceneLoad" /\ it = 1
  /\ lastHook = "OnSceneUnload" /\ calls = <<3, 2, 1>>
  /\ currentScene = 2 /\ staged = 2

\* C5: when a target was staged as the iteration began, the scene-swap
\* transition has run to its end before the iteration polls input, updates
\* Timing or dispatches a phase, and from then on the current scene is the
\* staged one (or the one a hook staged in its place during OnSceneUnload);
\* nothing is polled and no phase runs during the transition.
C5_SwapFirst ==
  /\ (pc \in AfterSwapPcs /\ staged # Null) => swapped /\ currentScene = staged
  /\ pc \in SwapPcs => ~polled /\ phases = <<>>
  /\ pc = "top" => staged = targetScene /\ ~swapped

\* C5 witness: Update is dispatched in an iteration that began with a staged
\* target, while another scene was current, and the staged scene is current.
C5_Witness ==
  /\ pc = "update" /\ polled /\ swapped
  /\ staged = 2 /\ currentScene = 2
  /\ lastHook = "OnSceneLoad"

\* C6: during every OnSceneLoad hook and during the new scene's Awake() the
\* target slot is empty.
C6_TargetClearedAtSwap ==
  pc \in {"sceneLoad", "awake"} => targetScene = Null

\* C7: no per-frame phase is dispatched on a scene that has not had Awake()
\* called exactly once since it became current, and Awake() has not yet been
\* called while the OnSceneLoad hooks run.
C7_AwakeBeforeUpdate ==
  /\ (pc \in AfterSwapPcs /\ currentScene # Null) => awakened = 1
  /\ pc \in {"sceneLoad", "awake"} => awakened = 0

\* C7 witness: the first Update hook is about to run on a scene that was
\* activated, and woken once, in this iteration.
C7_Witness ==
  /\ pc = "update" /\ it = 1 /\ swapped /\ awakened = 1
  /\ currentScene = 1 /\ staged = 1

\* C8 (as claimed): when the transition has completed, IsPlaying of the
\* current scene is true outside editor mode and false in editor mode.
C8_PlayingIffNotEditor ==
  (pc = "preamble" /\ swapped) => (IsPlaying <=> ~isEditor)

\* C8 (amended): the last step of the transition sets IsPlaying of the new
\* current scene to true outside editor mode and leaves it as it was, true
\* or false, in editor mode.
C8_Step ==
  (pc = "awake" /\ pc' = "preamble") =>
    IF isEditor THEN IsPlaying' = IsPlaying ELSE IsPlaying' = TRUE

C8_PlayByDefault == [][C8_Step]_vars

\* C8 witness: in editor mode a transition has completed on a scene that
\* was staged not playing while another scene was current, and it does not
\* play.
C8_Witness ==
  /\ pc = "preamble" /\ swapped /\ isEditor
  /\ currentScene = 2 /\ staged = 2 /\ ~IsPlaying
  /\ lastHook = "OnSceneLoad"

\* C9: once _isRunning is cleared inside an iteration, the iteration goes on
\* through its remaining steps: the loop is left only from the end of the
\* iteration, with the Timing update and the five phases done, the next step
\* is then the OnAppUnload dispatch and never another iteration.
C9_Step ==
  /\ (pc \in AfterSwapPcs \cup SwapPcs /\ ~isRunning /\ pc # "endFrame")
       => pc' \in AfterSwapPcs \cup SwapPcs \cup {"crashed"}
  /\ (pc = "endFrame" /\ ~isRunning)
       => polled /\ phases = PhaseSeq /\ pc' = "unload"
  /\ pc' = "unload" => pc \in {"endFrame", "unload"}
  /\ pc' = "top" => isRunning'

C9_StopCompletesFrame == [][C9_Step]_vars

\* C9 witness: the end of an iteration in which a stop was requested, all
\* five phases done.
C9_Witness ==
  /\ pc = "endFrame" /\ ~isRunning /\ polled /\ phases = PhaseSeq

\* the GetRenderOutput() values of the OnRender calls recorded so far
RenderOutputs == [i \in DOMAIN renderLog |-> renderLog[i][2]]

\* C10: every OnRender call received the last non-null output of the calls
\* before it in this frame (null when there is none); at the end of the
\* Render phase _renderOutput is the last non-null output of this frame's
\* calls, null when there is none; and a frame in which no layer produced
\* an output, in Render or in PostRender, ends with a null _renderOutput and
\* without a blit.
C10_RenderCarry ==
  /\ \A i \in DOMAIN renderLog :
       renderLog[i][1] = LastNonNull(SubSeq(RenderOutputs, 1, i - 1))
  /\ (pc = "postRender" /\ it = NumLayers) =>
       renderOutput = LastNonNull(RenderOutputs)
  /\ (pc = "endFrame" /\ phases = PhaseSeq /\ ~produced)
       => renderOutput = NullFB /\ ~blitted

\* C10 witness: the Render phase has ended after three layers produced
\* null, A, null, and the result is A although the previous frame left
\* nothing.
C10_Witness ==
  /\ pc = "postRender" /\ it = NumLayers
  /\ renderLog = << <<NullFB, NullFB>>, <<NullFB, "A">>, <<"A", NullFB>> >>
  /\ renderOutput = "A"

\* the output that survives _PostRender: the last non-null post-render
\* output of the calls recorded so far, the Render phase's result when there
\* is none
Surviving ==
  IF LastNonNull(postLog) # NullFB THEN LastNonNull(postLog) ELSE rendered

\* C11 (as claimed): the output a frame ends with is the last non-null
\* post-render output of the layers called in reverse registration order,
\* whatever the Render phase produced, and the frame blits if and only if
\* that output is not null.
C11_PostRenderAlone ==
  (pc = "endFrame" /\ phases = PhaseSeq) =>
    /\ renderOutput = LastNonNull(postLog)
    /\ blitted <=> LastNonNull(postLog) # NullFB

\* C11 (amended): throughout _PostRender and at the end of the frame
\* _renderOutput is the last non-null post-render output of the layers
\* called so far, in reverse registration order, and the Render phase's
\* result when no call returned one; the frame blits if and only if the
\* output it ends with is not null.
C11_PostRenderCarry ==
  /\ (pc = "postRender" \/ (pc = "endFrame" /\ phases = PhaseSeq))
       => renderOutput = Surviving
  /\ (pc = "endFrame" /\ phases = PhaseSeq) => (blitted <=> renderOutput # NullFB)

\* C11 witness: the Render phase left B; in PostRender L3 returned B, L2
\* returned A and L1 nothing: the frame ends with A, blitted.
C11_Witness ==
  /\ pc = "endFrame" /\ phases = PhaseSeq
  /\ rendered = "B" /\ postLog = <<"B", "A", NullFB>>
  /\ renderOutput = "A" /\ blitted

\* C12: a LoadScene(path) call that returns false leaves the current scene
\* and the staged target as they were, and a call that returns true has
\* staged a non-null scene.
C12_Step ==
  /\ loadReturn' = "false" =>
       currentScene' = currentScene /\ targetScene' = targetScene
  /\ loadReturn' = "true" => targetScene' # Null

C12_FailedLoadKeepsScenes == [][C12_Step]_vars

\* positions at which a layer hook of the main loop is dispatched
LoopHookPcs == {"sceneUnload", "sceneLoad", "resize", "update", "lateUpdate",
                "preRender", "render", "postRender"}

\* C13 (as claimed): whenever a hook is dispatched inside an iteration, the
\* OnSceneUnload, OnSceneLoad and OnWindowResize hooks included, Timing has
\* already been updated in that iteration.
C13_TimingBeforeEveryHook ==
  pc \in LoopHookPcs => polled

\* C13 (amended): Timing is updated once per iteration: only the Timing
\* step marks the iteration as updated, it is taken with the iteration not
\* yet updated, which holds while the scene swap and the event poll run, and
\* every per-frame phase and the end of the iteration are entered with the
\* update done.
C13_Step ==
  /\ pc = "timing" => ~polled /\ polled'
  /\ pc \notin {"timing", "endFrame"} => polled' = polled
  /\ pc \in SwapPcs \cup {"preamble", "poll", "resize"} => ~polled
  /\ pc' \in {"update", "lateUpdate", "preRender", "render", "postRender",
              "endFrame"} => polled'

C13_TimingOncePerFrame == [][C13_Step]_vars

\* C13 witness: an iteration that swapped scenes has updated Timing and has
\* dispatched OnUpdate to three layers.
C13_Witness ==
  /\ pc = "lateUpdate" /\ polled /\ swapped
  /\ lastHook = "OnUpdate" /\ calls = <<1, 2, 3>>

\* C14 (as claimed): in every state, also right after a hook has changed
\* timeScale, the stored deltaTime equals unscaledDeltaTime * timeScale.
C14_DeltaIsScaled ==
  deltaTime = unscaledDeltaTime * timeScale

\* d1 + ... + dN: the clock differences of the frames so far telescope to
\* the clock reading of the latest update minus the reading taken as the
\* loop was entered
SumOfDeltas == thisFrame - startFrame

\* the totals of C15
C15_Sums ==
  /\ unscaledTimeSinceAppLoad = SumOfDeltas
  /\ scaleFixed => timeSinceAppLoad = timeScale * SumOfDeltas

\* the per-frame increments of C15
C15_Step ==
  /\ pc = "timing" => unscaledDeltaTime' = thisFrame' - thisFrame
  /\ timeSinceSceneLoad' - timeSinceSceneLoad
       = timeSinceAppLoad' - timeSinceAppLoad
  /\ unscaledTimeSinceSceneLoad' - unscaledTimeSinceSceneLoad
       = unscaledTimeSinceAppLoad' - unscaledTimeSinceAppLoad

\* C15: after N frames with unscaled deltas d1..dN the unscaled counter since
\* application load is d1 + ... + dN and, while timeScale has kept the value
\* s it had when the loop was entered, the scaled counter is s times that
\* sum; each step adds to the since-scene-load counters what it adds to the
\* since-application-load counters.
C15_Accumulation == [](C15_Sums) /\ [][C15_Step]_vars

\* C15 witness: two frames with deltas 1 and 2 under a fixed scale of 2.
C15_Witness ==
  /\ scaleFixed /\ timeScale = 2
  /\ unscaledDeltaTime = 2 /\ SumOfDeltas = 3
  /\ timeSinceAppLoad = 6 /\ timeSinceSceneLoad = 6
  /\ unscaledTimeSinceSceneLoad = 3

\* the step on which _HandleSceneChange has finished loading a scene
SceneLoaded == swapped' /\ ~swapped

\* C16 (as claimed): no step decreases an elapsed-time counter, except that
\* the step that completes a scene load leaves the two since-scene-load
\* counters reset to zero.
C16_Step ==
  /\ timeSinceAppLoad' >= timeSinceAppLoad
  /\ unscaledTimeSinceAppLoad' >= unscaledTimeSinceAppLoad
  /\ IF SceneLoaded
       THEN timeSinceSceneLoad' = 0 /\ unscaledTimeSinceSceneLoad' = 0
       ELSE /\ timeSinceSceneLoad' >= timeSinceSceneLoad
            /\ unscaledTimeSinceSceneLoad' >= unscaledTimeSinceSceneLoad

C16_MonotoneWithSceneReset == [][C16_Step]_vars

\* the compiled-in defaults of the registered layers
Defaults == GetDefaultAppSettings(layerDefaults)

\* _ConfigureSettings has merged a persisted document over the defaults
MergedFile == pc = "load" /\ writes = <<>> /\ settingsFile.exists

\* C17: merging an empty persisted document leaves the defaults unchanged;
\* a persisted document holding only window_width leaves every other key,
\* nested per-layer keys included, as the defaults have it; merging the
\* persisted document a second time changes nothing.
C17_MergeKeepsDefaults ==
  MergedFile =>
    LET P == settingsFile.doc
    IN  /\ P = EmptyDoc => appSettings = Defaults
        /\ (\A k \in Keys \ {"window_width"} : P[k] = TAbsent)
             => \A k \in Keys \ {"window_width"} : appSettings[k] = Defaults[k]
        /\ merge_patch(appSettings, P) = appSettings

\* C17 witness: two layers, one named, and a file that holds window_width
\* alone: the width is the user's, the layer's nested default and the height
\* are the compiled ones.
C17_Witness ==
  /\ MergedFile
  /\ Len(layerDefaults) = 2
  /\ settingsFile.doc = [EmptyDoc EXCEPT !["window_width"] = TNum(UserValue)]
  /\ appSettings["window_width"] = TNum(UserValue)
  /\ appSettings["window_height"] = TNum(DEFAULT_WINDOW_HEIGHT)
  /\ appSettings["LayerA"].t = "obj"
  /\ appSettings["LayerA"].o["volume"] = Num(DefaultValue)

\* every key the persisted document P holds has P's value in S
Prevails(P, S) ==
  \A k \in Keys :
    /\ P[k].t \in {"num", "null"} => S[k] = P[k]
    /\ P[k].t = "obj" =>
         /\ S[k].t = "obj"
         /\ \A j \in SubKeys : P[k].o[j].t # "absent" => S[k].o[j] = P[k].o[j]

\* every key P holds with a value other than null has P's value in S, and
\* every key P holds with null is absent from S
PrevailsOrErases(P, S) ==
  \A k \in Keys :
    /\ P[k].t = "num" => S[k] = P[k]
    /\ P[k].t = "null" => S[k] = TAbsent
    /\ P[k].t = "obj" =>
         /\ S[k].t = "obj"
         /\ \A j \in SubKeys :
              /\ P[k].o[j].t = "num" => S[k].o[j] = P[k].o[j]
              /\ P[k].o[j].t = "null" => S[k].o[j] = Absent

\* every key of the defaults D that P lacks has D's value in S
LackedKept(P, D, S) ==
  \A k \in Keys :
    /\ P[k].t = "absent" => S[k] = D[k]
    /\ P[k].t = "obj" /\ D[k].t = "obj" =>
         \A j \in SubKeys : P[k].o[j].t = "absent" => S[k].o[j] = D[k].o[j]

\* the step of _ConfigureSettings
Configuring == pc = "register" /\ pc' = "load"

\* the file is written iff none existed, with the defaults; an existing file
\* is left as it is and the default keys it lacks are in the settings
C18_Persistence ==
  /\ writes' # writes <=> ~settingsFile.exists
  /\ ~settingsFile.exists =>
       writes' = <<Defaults>> /\ settingsFile' = FileOf(Defaults)
  /\ settingsFile.exists =>
       /\ settingsFile' = settingsFile
       /\ LackedKept(settingsFile.doc, Defaults, appSettings')

C18_StepAsClaimed ==
  Configuring =>
    /\ C18_Persistence
    /\ settingsFile.exists => Prevails(settingsFile.doc, appSettings')

\* C18 (as claimed): _ConfigureSettings writes the file iff no persisted
\* document exists, and writes the defaults; an existing document is not
\* overwritten, every key it holds overrides the default in the in-memory
\* settings, and the default keys it lacks are present there.
C18_PersistedKeysOverride == [][C18_StepAsClaimed]_vars

C18_Step ==
  Configuring =>
    /\ C18_Persistence
    /\ settingsFile.exists => PrevailsOrErases(settingsFile.doc, appSettings')

\* C18 (amended): as claimed, except that a key the persisted document holds
\* with the value null does not override: it is removed from the in-memory
\* settings; the keys it holds with any other value override.
C18_PersistedKeysPatch == [][C18_Step]_vars

\* C18 witness: the file holds a null window_width and lacks the named
\* layer: the in-memory settings have no window_width and have the layer's
\* defaults, and the file is as it was.
C18_Witness ==
  /\ MergedFile
  /\ settingsFile.doc["window_width"] = TNull
  /\ settingsFile.doc["LayerA"] = TAbsent
  /\ appSettings["window_width"] = TAbsent
  /\ appSettings["LayerA"].t = "obj"
  /\ appSettings["LayerA"].o["volume"] = Num(DefaultValue)
  /\ appSettings["LayerA"].o["window_width"] = Num(DefaultValue)

\* the instances constructed and the fate of the calls so far
C19_Instances ==
  /\ instances <= 1
  /\ singleton = Null <=> instances = 0
  /\ starts >= 2 => pc = Aborted /\ lastCall = "Start"
  /\ starts = 0 /\ lastCall = "Get" => pc = Aborted
  /\ pc = Aborted =>
       \/ lastCall = "Start" /\ starts >= 2 /\ singleton # Null
       \/ lastCall = "Get" /\ starts = 0 /\ singleton = Null

\* a call that fails its assertion leaves the singleton as it was
C19_Step ==
  pc' = Aborted => singleton' = singleton /\ instances' = instances

\* C19: over any sequence of Start and Get calls at most one Application is
\* constructed; a Start with the singleton set, a finished run included, and
\* a Get before any Start terminate the process, which no other call does,
\* and the failing call leaves the singleton unchanged.
C19_SingleInstance == [](C19_Instances) /\ [][C19_Step]_vars

\* C19 witness: the first run has dispatched OnAppUnload to its layers and
\* has ended, Start is called again and its assertion ends the process with
\* the one instance still the singleton.
C19_Witness ==
  /\ pc = Aborted /\ lastCall = "Start" /\ starts = 2
  /\ lastHook = "OnAppUnload" /\ calls = <<2, 1>>
  /\ singleton = NewApplication /\ instances = 1

\* positions of an iteration of the main loop
FramePcs == SwapPcs \cup AfterSwapPcs \cup {"top"}

\* C20 (as claimed, for a request made during Loading): once a layer's
\* OnAppLoad has called Quit() the loop runs no frame: the run goes from
\* _Load to _Unload.
C20_QuitWhileLoadingRunsNoFrame ==
  quitAt = "load" => pc \notin FramePcs \cup {"crashed"}

\* the step on which _HandleSceneChange returns
TransitionEnds == pc \in SwapPcs /\ pc' \notin SwapPcs \cup {"crashed"}

\* C21 (as claimed): the scene-swap transition never discards a staged
\* request: when a hook of the transition has staged a scene other than the
\* one being swapped in, that scene is still staged as the transition
\* returns, to be taken up at the top of the next iteration.
C21_Step ==
  TransitionEnds /\ targetScene # Null /\ targetScene # staged
    => targetScene' = targetScene

C21_TransitionKeepsRequest == [][C21_Step]_vars

\* the layers called so far are in registration order
Ascending(s) == \A i, j \in DOMAIN s : i < j => s[i] < s[j]

\* one step of _HandleWindowSizeChanged
C22_Step ==
  pc = "resize" =>
    /\ IF Eligible(it, "OnWindowResize")
         THEN /\ resizeArgs' = <<windowSize, newSize>>
              /\ calls' # <<>> /\ calls'[Len(calls')] = it
         ELSE resizeArgs' = resizeArgs /\ it \notin {calls'[i] : i \in DOMAIN calls'}
    /\ Ascending(calls')
    /\ newSize' = newSize
    /\ IF pc' = "resize"
         THEN windowSize' = windowSize /\ primaryViewport' = primaryViewport
         ELSE /\ windowSize' = newSize
              /\ primaryViewport' = <<0, 0, newSize[1], newSize[2]>>

WindowKeys == {"window_width", "window_height"}

\* the fragment is an object that has key k
HoldsKey(fragment, k) ==
  fragment.t = "obj" /\ k \in SubKeys /\ fragment.o[k] # Absent

\* a layer registered after layer i is named k, or is unnamed with a
\* fragment that has key k
LaterClaims(i, k) ==
  \E j \in (i + 1)..Len(layerDefaults) :
    \/ layerDefaults[j].Name = k
    \/ layerDefaults[j].Name = "" /\ HoldsKey(layerDefaults[j].config, k)

\* a layer registered after layer i is unnamed and its fragment is no object
LaterReplaces(i) ==
  \E j \in (i + 1)..Len(layerDefaults) :
    layerDefaults[j].Name = "" /\ layerDefaults[j].config.t # "obj"

\* the window keys of the defaults
WindowDefaults ==
  /\ appSettings["window_width"] = TNum(DEFAULT_WINDOW_WIDTH)
  /\ appSettings["window_height"] = TNum(DEFAULT_WINDOW_HEIGHT)

\* the settings are the compiled defaults of the registered layers
DefaultsResolved == pc = "load" /\ writes # <<>>

C24_NoNullDereference ==
  pc # "crashed"

\* the preamble of an iteration has run to its end
PreambleDone == pc = "preamble" /\ pc' = "poll"

\* C25 (as claimed): the Escape test toggles isGamePaused only in an
\* iteration where Escape is down, was up in the iteration before and the
\* game has started, so at most once while the key is held, also when a
\* LoadScene(path) call finds its file during the hold; isGamePaused changes
\* by that toggle or by LoadScene(path) setting it to false with
\* isGameStarted true.
C25_Step ==
  PreambleDone =>
    /\ toggled' => escapeDown' /\ ~escapeDown /\ isGameStarted'
    /\ isGamePaused' # isGamePaused
         => toggled' \/ (~isGamePaused' /\ isGameStarted')

C25_PauseEdgeTriggered == [][C25_Step]_vars

====
